---- MODULE Spec2Model ----
(***************************************************************************)
(* Model of py-spy's NativeStack (src/native_stack_trace.rs): capture of   *)
(* merged Python/native stack traces for every thread of a target process. *)
(***************************************************************************)
EXTENDS Integers, Sequences, FiniteSets, TLC

VARIABLES
    should_reload,   \* NativeStack.should_reload
    libunwinder,     \* NativeStack.libunwinder.is_some()
    pc,              \* position inside get_native_stack_traces ("idle": no call in progress)
    lock_held,       \* the guard returned by process.lock() is alive
    traces,          \* local `traces` (Vec<StackTrace>)
    threadids,       \* local `threadids` (HashSet<u64>)
    thread_list,     \* the Vec returned by process.threads()
    t_idx,           \* position of the `for thread in ...` loop
    native_stacks,   \* local `native_stacks` (HashMap<Tid, Vec<u64>>)
    threadid_map,    \* local `threadid_map` (HashMap<u64, Tid>)
    backend,         \* which unwinder is walking the current thread
    stack,           \* local `stack` of get_thread / get_libunwind_thread
    bx,              \* local `bx` of get_thread / get_libunwind_thread
    trace_idx,       \* position of the `for trace in traces.iter_mut()` loop
    result,          \* what the last call returned
    h                \* history record (observations only, never read by the code)

vars == <<should_reload, libunwinder, pc, lock_held, traces, threadids, thread_list,
          t_idx, native_stacks, threadid_map, backend, stack, bx, trace_idx, result, h>>

----------------------------------------------------------------------------
(* Bounds *)

MaxStack == 2        \* raw addresses per OS thread in a capture call
MaxFrames == 1       \* managed frames per interpreter trace in a capture call
MaxTraces == 2       \* interpreter traces per capture call
MergeMaxStack == 3   \* raw addresses of the stack handed to one merge
MergeMaxFrames == 2  \* managed frames of the trace handed to one merge

----------------------------------------------------------------------------
(* Option<T> *)

None == [some |-> FALSE]
Some(v) == [some |-> TRUE, val |-> v]

(* str::starts_with and str::contains *)
StartsWith(s, p) ==
    /\ Len(p) <= Len(s)
    /\ SubSeq(s, 1, Len(p)) = p

Contains(s, p) ==
    \E i \in 1..(Len(s) - Len(p) + 1) : SubSeq(s, i, i + Len(p) - 1) = p

(* format!("0x{:016x}", addr) *)
HexDigits == "0123456789abcdef"

RECURSIVE HexStr(_)
HexStr(n) ==
    IF n < 16 THEN SubSeq(HexDigits, n + 1, n + 1)
    ELSE HexStr(n \div 16) \o SubSeq(HexDigits, (n % 16) + 1, (n % 16) + 1)

RECURSIVE ZeroPad(_, _)
ZeroPad(s, width) == IF Len(s) >= width THEN s ELSE ZeroPad("0" \o s, width)

HexWidth == 16

FormatAddr(addr) == "0x" \o ZeroPad(HexStr(addr), HexWidth)

----------------------------------------------------------------------------
(* The NativeStack's configuration (arguments of NativeStack::new) *)

python_filename == "/usr/bin/python3"
libpython_filename == Some("/usr/lib/libpython3.so")

(* The target process's symbols, as unwinder.symbolicate reports them:      *)
(* address -> Err, or Ok with one resolved frame handed to the callback.    *)
A_EvalPy      == 4096   \* _PyEval_EvalFrameDefault in the python binary
A_EvalLib     == 4112   \* PyEval_EvalFrameEx in libpython
A_EvalPrefix  == 4128   \* __PyEval_EvalFrameDefault, module a prefix of python_filename
A_PyOther     == 4144   \* PyObject_Call in the python binary
A_PyNoFunc    == 4160   \* python binary, no function name
A_LibcStart   == 4176   \* __libc_start_main in libc
A_StartThread == 4192   \* start_thread in libpthread
A_Mangled     == 4208   \* _Z3fooi in an extension module
A_NoFunc      == 4224   \* extension module, no function name
A_Unresolved  == 43981  \* symbolicate fails (0xabcd)
A_CythonCall  == 4240   \* __Pyx_PyObject_Call (cython helper)
A_CloneExt    == 4256   \* __clone outside libc
A_EvalExt     == 4272   \* _PyEval_EvalFrameDefault outside the interpreter
A_CythonFn    == 4288   \* __pyx_pw_3mod_1f compiled from mod.pyx

Addrs == {A_EvalPy, A_EvalLib, A_EvalPrefix, A_PyOther, A_PyNoFunc, A_LibcStart,
          A_StartThread, A_Mangled, A_NoFunc, A_Unresolved, A_CythonCall,
          A_CloneExt, A_EvalExt, A_CythonFn}

Resolved(module, function, filename, line) ==
    [ok |-> TRUE, module |-> module, function |-> function,
     filename |-> filename, line |-> line]

Symbolicate(addr) ==
    CASE addr = A_EvalPy      -> Resolved(python_filename, Some("_PyEval_EvalFrameDefault"), Some("ceval.c"), Some(3000))
      [] addr = A_EvalLib     -> Resolved("/usr/lib/libpython3.so", Some("PyEval_EvalFrameEx"), None, None)
      [] addr = A_EvalPrefix  -> Resolved("/usr/bin/python", Some("__PyEval_EvalFrameDefault"), None, None)
      [] addr = A_PyOther     -> Resolved(python_filename, Some("PyObject_Call"), Some("call.c"), Some(200))
      [] addr = A_PyNoFunc    -> Resolved(python_filename, None, None, None)
      [] addr = A_LibcStart   -> Resolved("/lib/x86_64/libc-2.27.so", Some("__libc_start_main"), None, None)
      [] addr = A_StartThread -> Resolved("/lib/x86_64/libpthread-2.27.so", Some("start_thread"), None, None)
      [] addr = A_Mangled     -> Resolved("/app/ext.so", Some("_Z3fooi"), Some("ext.cpp"), Some(12))
      [] addr = A_NoFunc      -> Resolved("/app/ext.so", None, None, None)
      [] addr = A_CythonCall  -> Resolved("/app/mod.so", Some("__Pyx_PyObject_Call"), Some("mod.c"), Some(900))
      [] addr = A_CloneExt    -> Resolved("/app/ext.so", Some("__clone"), None, Some(7))
      [] addr = A_EvalExt     -> Resolved("/app/ext.so", Some("_PyEval_EvalFrameDefault"), None, None)
      [] addr = A_CythonFn    -> Resolved("/app/mod.so", Some("__pyx_pw_3mod_1f"), Some("mod.c"), Some(40))
      [] OTHER                -> [ok |-> FALSE]

----------------------------------------------------------------------------
(* Collaborators of the merge *)

(* utils::resolve_filename: the filename relative to its module, if found *)
resolve_filename(filename, module) ==
    IF filename = "ext.cpp" /\ module = "/app/ext.so" THEN Some("/app/src/ext.cpp") ELSE None

(* cpp_demangle with no_params: Some(name) when parsing and demangling succeed *)
CppDemangle(func) ==
    IF func = "_Z3fooi" THEN Some("foo") ELSE None

(* cython::ignore_frame *)
cython_ignore_frame(name) ==
    name \in {"__Pyx_PyObject_Call", "__Pyx_PyFunction_FastCallDict"}

(* cython::demangle: slices a leading cython prefix off the name *)
cython_demangle(name) ==
    IF StartsWith(name, "__pyx_pw_3mod_1") THEN SubSeq(name, 16, Len(name)) ELSE name

(* cython::SourceMaps::translate: rewrites frames of source-annotated compiled files *)
Translate(frame) ==
    IF frame.filename = "mod.c" /\ frame.line # 0
    THEN [frame EXCEPT !.filename = "mod.pyx", !.line = 4]
    ELSE frame

----------------------------------------------------------------------------
(* Frame classification and merge (the symbolicate callback, lines 119-186) *)

IsPythonModule_Exact(module) == module = python_filename

IsPythonModule(module) ==
    \/ module = python_filename
    \/ Some(module) = libpython_filename
    \/ StartsWith(python_filename, module)

IsEvalFunction(function) ==
    \/ function = "_PyEval_EvalFrameDefault"
    \/ function = "PyEval_EvalFrameEx"
    \/ function = "__PyEval_EvalFrameDefault"

ignore_frame_ExactModule(function, module) ==
    \/ function = "__libc_start_main" /\ module = "/libc"
    \/ function = "__clone" /\ module = "/libc"
    \/ function = "start_thread" /\ module = "/libpthread"

ignore_frame(function, module) ==
    \/ function = "__libc_start_main" /\ Contains(module, "/libc")
    \/ function = "__clone" /\ Contains(module, "/libc")
    \/ function = "start_thread" /\ Contains(module, "/libpthread")

PushPython_Last(merged, python_frame_index, frames) ==
    IF python_frame_index < Len(frames)
    THEN Append(merged, frames[Len(frames) - python_frame_index])
    ELSE merged

(* the frame pushed at a marker: the next managed frame, if there is one *)
PushPython(merged, python_frame_index, frames) ==
    IF python_frame_index < Len(frames)
    THEN Append(merged, frames[python_frame_index + 1])
    ELSE merged

(* a marker was found: merge the managed frame and advance the cursor *)
OnMarker(st, frames) ==
    [merged |-> PushPython(st.merged, st.python_frame_index, frames),
     python_frame_index |-> st.python_frame_index + 1]

(* a resolved frame whose module is the interpreter's *)
OnPythonModule(st, frame, frames) ==
    IF frame.function.some /\ IsEvalFunction(frame.function.val)
    THEN OnMarker(st, frames)
    ELSE st

(* the frame built for a resolved function outside the interpreter *)
NativeFrame(frame, func) ==
    LET line == IF frame.line.some THEN frame.line.val ELSE 0
        filename ==
            IF frame.filename.some
            THEN LET r == resolve_filename(frame.filename.val, frame.module)
                 IN  IF r.some THEN r.val ELSE frame.filename.val
            ELSE frame.module
        demangled == IF StartsWith(func, "_") THEN CppDemangle(func) ELSE None
        name == IF demangled.some THEN demangled.val ELSE func
    IN  [drop |-> cython_ignore_frame(name),
         frame |-> [filename |-> filename, line |-> line, name |-> cython_demangle(name),
                    short_filename |-> None, module |-> Some(frame.module)]]

(* the frame built for a resolved address without a function name *)
AddrFrame(frame, addr) ==
    [filename |-> frame.module, name |-> FormatAddr(addr), line |-> 0,
     short_filename |-> None, module |-> Some(frame.module)]

(* a resolved frame whose module is not the interpreter's *)
OnOtherModule(st, frame, addr) ==
    IF frame.function.some
    THEN IF ignore_frame(frame.function.val, frame.module)
         THEN st
         ELSE LET n == NativeFrame(frame, frame.function.val)
              IN  IF n.drop THEN st
                  ELSE [st EXCEPT !.merged = Append(@, n.frame)]
    ELSE [st EXCEPT !.merged = Append(@, AddrFrame(frame, addr))]

(* the callback handed to symbolicate *)
OnFrame(st, frame, addr, frames) ==
    IF IsPythonModule(frame.module)
    THEN OnPythonModule(st, frame, frames)
    ELSE OnOtherModule(st, frame, addr)

StubFrame_Short(addr) ==
    [filename |-> "?", name |-> "0x" \o HexStr(addr), line |-> 0,
     short_filename |-> None, module |-> None]

(* the stub inserted when symbolicate fails *)
StubFrame(addr) ==
    [filename |-> "?", name |-> FormatAddr(addr), line |-> 0,
     short_filename |-> None, module |-> None]

MergeAddr_CountsUnresolved(st, addr, frames) ==
    LET r == Symbolicate(addr)
    IN  IF r.ok THEN OnFrame(st, r, addr, frames)
        ELSE [merged |-> Append(st.merged, StubFrame(addr)),
              python_frame_index |-> st.python_frame_index + 1]

(* one iteration of `for addr in stack` *)
MergeAddr(st, addr, frames) ==
    LET r == Symbolicate(addr)
    IN  IF r.ok THEN OnFrame(st, r, addr, frames)
        ELSE [st EXCEPT !.merged = Append(@, StubFrame(addr))]

(* the whole `for addr in stack` loop, from an empty merged list *)
RECURSIVE MergeFrom(_, _, _)
MergeFrom(st, addrs, frames) ==
    IF addrs = <<>> THEN st
    ELSE MergeFrom(MergeAddr(st, Head(addrs), frames), Tail(addrs), frames)

MergeStack(addrs, frames) ==
    MergeFrom([merged |-> <<>>, python_frame_index |-> 0], addrs, frames)

CountsMatch_AtMost(python_frame_index, nframes) == python_frame_index <= nframes

(* the parity check of line 188 *)
CountsMatch(python_frame_index, nframes) == python_frame_index = nframes

(* the final pass: translate every merged frame *)
TranslateAll(merged) == [i \in 1..Len(merged) |-> Translate(merged[i])]

----------------------------------------------------------------------------
(* Inputs of a capture call *)

MaxThreads == 2      \* OS threads of the target process

Tids == 1..MaxThreads
PyIds == {10 + i : i \in 1..MaxTraces}
Candidates == {0} \cup PyIds
UnwindAddrs == {A_EvalPy, A_Unresolved}

RECURSIVE SeqsUpTo(_, _)
SeqsUpTo(S, n) ==
    IF n = 0 THEN {<<>>}
    ELSE LET shorter == SeqsUpTo(S, n - 1)
         IN  shorter \cup {Append(s, x) : s \in {q \in shorter : Len(q) = n - 1}, x \in S}

(* managed frame k of the interpreter thread tid, as get_stack_traces reports it *)
PyFrame(tid, k) ==
    [filename |-> "app.py", line |-> 100 * tid + k, name |-> "py_fn",
     short_filename |-> None, module |-> None]

PyTrace(tid, n) ==
    [thread_id |-> tid, frames |-> [k \in 1..n |-> PyFrame(tid, k)], os_thread_id |-> None]

(* what get_stack_traces can return: one trace per interpreter thread *)
TraceInputs(maxTraces, maxFrames) ==
    {s \in SeqsUpTo({PyTrace(tid, n) : tid \in PyIds, n \in 0..maxFrames}, maxTraces) :
        \A i, j \in 1..Len(s) : i # j => s[i].thread_id # s[j].thread_id}

(* what process.threads() can return (thread ids are numbered in listing order) *)
ThreadLists == {[i \in 1..n |-> i] : n \in 0..MaxThreads}

NoResult == [kind |-> "None", err |-> "", native |-> 0, python |-> 0, traces |-> <<>>]
OkResult(ts) == [kind |-> "Ok", err |-> "", native |-> 0, python |-> 0, traces |-> ts]
ErrResult(e, n, p) == [kind |-> "Err", err |-> e, native |-> n, python |-> p, traces |-> <<>>]
PanicResult == [kind |-> "Panic", err |-> "", native |-> 0, python |-> 0, traces |-> <<>>]

EmptyMap == [k \in {} |-> 0]

HInit ==
    [pending |-> FALSE,      \* NoBinaryForAddress reported, no reload has succeeded since
     reload |-> "no",        \* reload() in this call: "no", "ok" or "failed"
     reload_locked |-> FALSE, \* the lock was held when reload() was invoked
     yielded |-> <<>>,       \* addresses the current cursor has yielded
     cand |-> 0,             \* last candidate the current cursor sampled that is a known id
     prim_err |-> "",        \* error of the primary unwinder for the current thread
     from |-> EmptyMap,      \* per stored thread: the cursor that finished, what it yielded
     orig |-> <<>>,          \* the traces as collected
     walked |-> <<>>,        \* per merged trace: the raw stack walked
     owed |-> FALSE,         \* pending held when this call was entered
     exit |-> ""]            \* where this call returned

----------------------------------------------------------------------------
(* State after NativeStack::new *)

LocalsInit ==
    /\ traces = <<>>
    /\ threadids = {}
    /\ thread_list = <<>>
    /\ t_idx = 1
    /\ native_stacks = EmptyMap
    /\ threadid_map = EmptyMap
    /\ backend = "none"
    /\ stack = <<>>
    /\ bx = 0
    /\ trace_idx = 1

Init ==
    /\ should_reload = FALSE
    /\ libunwinder \in BOOLEAN
    /\ pc = "idle"
    /\ lock_held = FALSE
    /\ result = NoResult
    /\ h = HInit
    /\ LocalsInit

Locals == <<traces, threadids, thread_list, t_idx, native_stacks, threadid_map,
            backend, stack, bx, trace_idx>>

GuardAfterExit_Leaked(held) == held

(* the scoped lock guard after an early `return Err` / `?`: dropped *)
GuardAfterExit(held) == FALSE

(* leaving get_native_stack_traces with r; hh is the history so far *)
Return(r, hh) ==
    /\ result' = r
    /\ pc' = "idle"
    /\ lock_held' = GuardAfterExit(lock_held)
    /\ h' = [hh EXCEPT !.exit = pc]

(* a new call of get_native_stack_traces *)
Call ==
    /\ pc = "idle"
    /\ pc' = "entry"
    /\ result' = NoResult
    /\ traces' = <<>>
    /\ threadids' = {}
    /\ thread_list' = <<>>
    /\ t_idx' = 1
    /\ native_stacks' = EmptyMap
    /\ threadid_map' = EmptyMap
    /\ backend' = "none"
    /\ stack' = <<>>
    /\ bx' = 0
    /\ trace_idx' = 1
    /\ h' = [HInit EXCEPT !.pending = h.pending, !.owed = h.pending]
    /\ UNCHANGED <<should_reload, libunwinder, lock_held>>

FlagAfterReload_Kept(flag) == flag

(* should_reload after unwinder.reload() returned Ok *)
FlagAfterReload(flag) == FALSE

(* lines 66-69 with should_reload set *)
Reload ==
    /\ pc = "entry"
    /\ should_reload
    /\ \E ok \in BOOLEAN :
         IF ok
         THEN /\ should_reload' = FlagAfterReload(should_reload)
              /\ pc' = "lock"
              /\ h' = [h EXCEPT !.reload = "ok", !.reload_locked = lock_held,
                                !.pending = FALSE]
              /\ UNCHANGED <<result, lock_held>>
         ELSE /\ Return(ErrResult("reload", 0, 0),
                        [h EXCEPT !.reload = "failed", !.reload_locked = lock_held])
              /\ UNCHANGED should_reload
    /\ UNCHANGED <<libunwinder, Locals>>

(* lines 66-69 with should_reload clear *)
NoReload ==
    /\ pc = "entry"
    /\ ~should_reload
    /\ pc' = "lock"
    /\ UNCHANGED <<should_reload, libunwinder, lock_held, result, h, Locals>>

(* line 81: self.process.lock()? *)
AcquireLock ==
    /\ pc = "lock"
    /\ \E ok \in BOOLEAN :
         IF ok
         THEN /\ lock_held' = TRUE
              /\ pc' = "collect"
              /\ UNCHANGED <<result, h>>
         ELSE Return(ErrResult("lock", 0, 0), h)
    /\ UNCHANGED <<should_reload, libunwinder, Locals>>

(* lines 82-85: get_stack_traces(interpreter, process)? and the set of thread ids *)
CollectTraces ==
    /\ pc = "collect"
    /\ \E ok \in BOOLEAN :
         IF ok
         THEN \E ts \in TraceInputs(MaxTraces, MaxFrames) :
                /\ traces' = ts
                /\ threadids' = {ts[i].thread_id : i \in 1..Len(ts)}
                /\ pc' = "threads"
                /\ h' = [h EXCEPT !.orig = ts]
                /\ UNCHANGED <<result, lock_held>>
         ELSE /\ Return(ErrResult("get_stack_traces", 0, 0), h)
              /\ UNCHANGED <<traces, threadids>>
    /\ UNCHANGED <<should_reload, libunwinder, thread_list, t_idx, native_stacks,
                   threadid_map, backend, stack, bx, trace_idx>>

(* line 87: self.process.threads()? *)
ListThreads ==
    /\ pc = "threads"
    /\ \E ok \in BOOLEAN :
         IF ok
         THEN \E tl \in ThreadLists :
                /\ thread_list' = tl
                /\ t_idx' = 1
                /\ pc' = IF tl = <<>> THEN "unlock" ELSE "unwind"
                /\ UNCHANGED <<result, lock_held, h>>
         ELSE /\ Return(ErrResult("threads", 0, 0), h)
              /\ UNCHANGED <<thread_list, t_idx>>
    /\ UNCHANGED <<should_reload, libunwinder, traces, threadids, native_stacks,
                   threadid_map, backend, stack, bx, trace_idx>>

(* HashMap::insert and HashMap::entry(k).or_insert(v) *)
MapInsert(m, k, v) == [x \in DOMAIN m \cup {k} |-> IF x = k THEN v ELSE m[x]]
OrInsert(m, k, v) == IF k \in DOMAIN m THEN m ELSE MapInsert(m, k, v)

(* lines 219-221 / 235-237: keep the register value if it is a known thread id *)
BxUpdate(old, next_bx, ids) ==
    IF next_bx # 0 /\ next_bx \in ids THEN next_bx ELSE old

(* lines 104-105: the thread's snapshot is stored, the loop moves on *)
Store(hh) ==
    LET thread == thread_list[t_idx]
    IN  /\ native_stacks' = MapInsert(native_stacks, thread, stack)
        /\ threadid_map' = OrInsert(threadid_map, bx, thread)
        /\ t_idx' = t_idx + 1
        /\ pc' = IF t_idx = Len(thread_list) THEN "unlock" ELSE "unwind"
        /\ backend' = "none"
        /\ stack' = <<>>
        /\ bx' = 0
        /\ h' = [hh EXCEPT !.from = MapInsert(@, thread,
                              [by |-> backend, yielded |-> hh.yielded, cand |-> hh.cand]),
                           !.yielded = <<>>, !.cand = 0, !.prim_err = ""]
        /\ UNCHANGED <<result, lock_held>>

PrimaryFail_NoFallback(e, hh) ==
    /\ result' = ErrResult(e, 0, 0)
    /\ pc' = "idle"
    /\ lock_held' = FALSE
    /\ h' = [hh EXCEPT !.prim_err = e, !.exit = pc]
    /\ UNCHANGED backend

(* lines 93-101: get_thread returned Err(e) *)
PrimaryFail(e, hh) ==
    IF libunwinder
    THEN /\ backend' = "fallback"
         /\ h' = [hh EXCEPT !.prim_err = e, !.yielded = <<>>, !.cand = 0]
         /\ UNCHANGED <<pc, result, lock_held>>
    ELSE /\ Return(ErrResult(e, 0, 0), [hh EXCEPT !.prim_err = e])
         /\ UNCHANGED backend

(* lines 208-211: get_thread starts, self.unwinder.cursor(thread)? *)
PrimaryCursor ==
    /\ pc = "unwind"
    /\ backend = "none"
    /\ \E ok \in BOOLEAN :
         IF ok
         THEN /\ backend' = "primary"
              /\ stack' = <<>>
              /\ bx' = 0
              /\ h' = [h EXCEPT !.yielded = <<>>, !.cand = 0]
              /\ UNCHANGED <<pc, result, lock_held>>
         ELSE /\ PrimaryFail("cursor", h)
              /\ UNCHANGED <<stack, bx>>
    /\ UNCHANGED <<should_reload, libunwinder, traces, threadids, thread_list, t_idx,
                   native_stacks, threadid_map, trace_idx>>

(* should_reload after the cursor reported NoBinaryForAddress (line 215) *)
FlagAfterNoBinary(flag) == TRUE

(* lines 213-222: cursor.next() yields an address; the register is sampled *)
PrimaryStep ==
    /\ pc = "unwind"
    /\ backend = "primary"
    /\ Len(stack) < MaxStack
    /\ \E a \in UnwindAddrs, next_bx \in Candidates :
         /\ stack' = Append(stack, a)
         /\ bx' = BxUpdate(bx, next_bx, threadids)
         /\ h' = [h EXCEPT !.yielded = Append(@, a),
                           !.cand = IF next_bx # 0 /\ next_bx \in threadids THEN next_bx ELSE @]
    /\ UNCHANGED <<should_reload, libunwinder, pc, lock_held, traces, threadids, thread_list,
                   t_idx, native_stacks, threadid_map, backend, trace_idx, result>>

(* lines 213-217: cursor.next() yields an error; get_thread's locals are dropped *)
PrimaryError ==
    /\ pc = "unwind"
    /\ backend = "primary"
    /\ \E nobinary \in BOOLEAN :
         IF nobinary
         THEN /\ should_reload' = FlagAfterNoBinary(should_reload)
              /\ PrimaryFail("NoBinaryForAddress", [h EXCEPT !.pending = TRUE])
         ELSE /\ PrimaryFail("unwind", h)
              /\ UNCHANGED should_reload
    /\ stack' = <<>>
    /\ bx' = 0
    /\ UNCHANGED <<libunwinder, traces, threadids, thread_list, t_idx, native_stacks,
                   threadid_map, trace_idx>>

(* lines 213, 224, 104-105: the cursor is exhausted, get_thread returns Ok *)
PrimaryDone ==
    /\ pc = "unwind"
    /\ backend = "primary"
    /\ Store(h)
    /\ UNCHANGED <<should_reload, libunwinder, traces, threadids, thread_list, trace_idx>>

(* lines 229-232: the locals get_libunwind_thread starts from *)
LibunwindStart == [stack |-> <<>>, bx |-> 0]

(* lines 96-97, 229-232: get_libunwind_thread starts, unwinder.cursor(thread)? *)
LibunwindCursor ==
    /\ pc = "unwind"
    /\ backend = "fallback"
    /\ \E ok \in BOOLEAN :
         IF ok
         THEN /\ backend' = "secondary"
              /\ stack' = LibunwindStart.stack
              /\ bx' = LibunwindStart.bx
              /\ h' = [h EXCEPT !.yielded = <<>>, !.cand = 0]
              /\ UNCHANGED <<pc, result, lock_held>>
         ELSE /\ Return(ErrResult("libunwind_cursor", 0, 0), h)
              /\ UNCHANGED <<backend, stack, bx>>
    /\ UNCHANGED <<should_reload, libunwinder, traces, threadids, thread_list, t_idx,
                   native_stacks, threadid_map, trace_idx>>

(* lines 233-240: the register is sampled (if readable), then the address is pushed *)
LibunwindStep ==
    /\ pc = "unwind"
    /\ backend = "secondary"
    /\ Len(stack) < MaxStack
    /\ \E a \in UnwindAddrs, bx_ok \in BOOLEAN, next_bx \in Candidates :
         LET known == bx_ok /\ next_bx # 0 /\ next_bx \in threadids
         IN  /\ stack' = Append(stack, a)
             /\ bx' = IF bx_ok THEN BxUpdate(bx, next_bx, threadids) ELSE bx
             /\ h' = [h EXCEPT !.yielded = Append(@, a),
                               !.cand = IF known THEN next_bx ELSE @]
    /\ UNCHANGED <<should_reload, libunwinder, pc, lock_held, traces, threadids, thread_list,
                   t_idx, native_stacks, threadid_map, backend, trace_idx, result>>

(* lines 233-239: cursor.next() yields an error: `ip?` leaves the whole call *)
LibunwindError ==
    /\ pc = "unwind"
    /\ backend = "secondary"
    /\ Return(ErrResult("libunwind", 0, 0), h)
    /\ UNCHANGED <<should_reload, libunwinder, Locals>>

(* lines 233, 242, 104-105: the cursor is exhausted *)
LibunwindDone ==
    /\ pc = "unwind"
    /\ backend = "secondary"
    /\ Store(h)
    /\ UNCHANGED <<should_reload, libunwinder, traces, threadids, thread_list, trace_idx>>

(* line 107: the block ends, _lock is dropped *)
ReleaseLock ==
    /\ pc = "unlock"
    /\ lock_held' = FALSE
    /\ pc' = "merge"
    /\ UNCHANGED <<should_reload, libunwinder, result, h, Locals>>

(* lines 110-113: the OS thread of a trace; None stands for the panic of map[&0] *)
LookupThread(map, thread_id) ==
    IF thread_id \in DOMAIN map THEN Some(map[thread_id])
    ELSE IF 0 \in DOMAIN map THEN Some(map[0])
    ELSE None

(* lines 109-203: one iteration of `for trace in traces.iter_mut()` *)
MergeTrace ==
    /\ pc = "merge"
    /\ trace_idx <= Len(traces)
    /\ LET trace == traces[trace_idx]
           found == LookupThread(threadid_map, trace.thread_id)
       IN  IF ~found.some
           THEN /\ Return(PanicResult, h)
                /\ UNCHANGED <<traces, trace_idx>>
           ELSE LET os_thread_id == found.val
                    st == MergeStack(native_stacks[os_thread_id], trace.frames)
                    hh == [h EXCEPT !.walked = Append(@,
                              [stack |-> native_stacks[os_thread_id], os |-> os_thread_id])]
                IN  IF ~CountsMatch(st.python_frame_index, Len(trace.frames))
                    THEN /\ Return(ErrResult("mismatch", st.python_frame_index,
                                             Len(trace.frames)), hh)
                         /\ UNCHANGED <<traces, trace_idx>>
                    ELSE /\ traces' = [traces EXCEPT ![trace_idx] =
                                          [@ EXCEPT !.os_thread_id = Some(os_thread_id),
                                                    !.frames = TranslateAll(st.merged)]]
                         /\ trace_idx' = trace_idx + 1
                         /\ h' = hh
                         /\ UNCHANGED <<pc, result, lock_held>>
    /\ UNCHANGED <<should_reload, libunwinder, threadids, thread_list, t_idx, native_stacks,
                   threadid_map, backend, stack, bx>>

(* line 204: Ok(traces) *)
ReturnOk ==
    /\ pc = "merge"
    /\ trace_idx > Len(traces)
    /\ Return(OkResult(traces), h)
    /\ UNCHANGED <<should_reload, libunwinder, Locals>>

Next ==
    \/ Call
    \/ Reload
    \/ NoReload
    \/ AcquireLock
    \/ CollectTraces
    \/ ListThreads
    \/ PrimaryCursor
    \/ PrimaryStep
    \/ PrimaryError
    \/ PrimaryDone
    \/ LibunwindCursor
    \/ LibunwindStep
    \/ LibunwindError
    \/ LibunwindDone
    \/ ReleaseLock
    \/ MergeTrace
    \/ ReturnOk

Spec == Init /\ [][Next]_vars

----------------------------------------------------------------------------
(* The merge alone: one trace and the raw stack of its OS thread, drawn from *)
(* every address of the symbol table, handed to the merge loop.             *)

MergeInit ==
    /\ should_reload = FALSE
    /\ libunwinder = FALSE
    /\ pc = "merge"
    /\ lock_held = FALSE
    /\ result = NoResult
    /\ \E ts \in TraceInputs(1, MergeMaxFrames), s \in SeqsUpTo(Addrs, MergeMaxStack) :
         /\ Len(ts) = 1
         /\ ts[1].thread_id = 11
         /\ traces = ts
         /\ threadids = {11}
         /\ native_stacks = MapInsert(EmptyMap, 1, s)
         /\ h = [HInit EXCEPT !.orig = ts,
                    !.from = MapInsert(EmptyMap, 1, [by |-> "primary", yielded |-> s, cand |-> 11])]
    /\ thread_list = <<1>>
    /\ t_idx = 2
    /\ threadid_map = MapInsert(EmptyMap, 11, 1)
    /\ backend = "none"
    /\ stack = <<>>
    /\ bx = 0
    /\ trace_idx = 1

MergeNext == MergeTrace \/ ReturnOk

MergeSpec == MergeInit /\ [][MergeNext]_vars

----------------------------------------------------------------------------
(* Vocabulary of the properties: what the specification says of an address, *)
(* written from the symbol data alone.                                      *)

EvalEntryPoints == {"_PyEval_EvalFrameDefault", "PyEval_EvalFrameEx", "__PyEval_EvalFrameDefault"}

IgnorableTable == {<<"__libc_start_main", "/libc">>, <<"__clone", "/libc">>,
                   <<"start_thread", "/libpthread">>}

InterpreterModule(module) ==
    \/ module = python_filename
    \/ (libpython_filename.some /\ module = libpython_filename.val)
    \/ (Len(module) <= Len(python_filename)
        /\ \A i \in 1..Len(module) : SubSeq(module, i, i) = SubSeq(python_filename, i, i))

InIgnorableTable(function, module) ==
    \E e \in IgnorableTable : function = e[1] /\ Contains(module, e[2])

DemangledName(function) ==
    IF StartsWith(function, "_") /\ CppDemangle(function).some
    THEN CppDemangle(function).val ELSE function

(* "stub", "marker", "interp_other", "ignorable", "flagged" or "native" *)
Kind(addr) ==
    LET r == Symbolicate(addr)
    IN  IF ~r.ok THEN "stub"
        ELSE IF InterpreterModule(r.module)
             THEN IF r.function.some /\ r.function.val \in EvalEntryPoints
                  THEN "marker" ELSE "interp_other"
        ELSE IF ~r.function.some THEN "native"
        ELSE IF InIgnorableTable(r.function.val, r.module) THEN "ignorable"
        ELSE IF cython_ignore_frame(DemangledName(r.function.val)) THEN "flagged"
        ELSE "native"

MarkerCount(s) == Cardinality({i \in 1..Len(s) : Kind(s[i]) = "marker"})

(* positions of the raw stack that put a frame into the merged list *)
Emitting(s) == {i \in 1..Len(s) : Kind(s[i]) \in {"stub", "marker", "native"}}
Rank(s, i) == Cardinality({j \in Emitting(s) : j <= i})
MarkerRank(s, i) == Cardinality({j \in 1..i : Kind(s[j]) = "marker"})

Range(f) == {f[i] : i \in DOMAIN f}

(* the merge loop has finished trace i without an error *)
Merged(i) == i < trace_idx /\ i <= Len(h.walked) /\ i <= Len(traces)

HexValue(c) == CHOOSE d \in 0..15 : SubSeq(HexDigits, d + 1, d + 1) = c
IsHexDigit(c) == \E d \in 0..15 : SubSeq(HexDigits, d + 1, d + 1) = c

RECURSIVE ParseHex(_)
ParseHex(str) ==
    IF Len(str) = 0 THEN 0
    ELSE 16 * ParseHex(SubSeq(str, 1, Len(str) - 1)) + HexValue(SubSeq(str, Len(str), Len(str)))

----------------------------------------------------------------------------
(* C1: a call returns Ok only if every trace's marker count (markers found  *)
(* while walking its bound OS thread's raw stack) equals its managed frame  *)
(* count; as soon as one walked trace has a mismatch the call has returned  *)
(* the mismatch error carrying (marker count, managed count) and returns no *)
(* trace, also when earlier traces of the call were merged successfully.    *)
C1_ParityDecidesResult ==
    /\ result.kind = "Ok" =>
          /\ Len(h.walked) = Len(h.orig)
          /\ Len(result.traces) = Len(h.orig)
          /\ \A i \in 1..Len(h.orig) :
                MarkerCount(h.walked[i].stack) = Len(h.orig[i].frames)
    /\ \A i \in 1..Len(h.walked) :
          /\ h.walked[i].stack = native_stacks[h.walked[i].os]
          /\ MarkerCount(h.walked[i].stack) # Len(h.orig[i].frames) =>
                /\ pc = "idle"
                /\ i = Len(h.walked)
                /\ result = ErrResult("mismatch", MarkerCount(h.walked[i].stack),
                                      Len(h.orig[i].frames))
                /\ result.traces = <<>>

(* C1 witness: the second trace has more markers than managed frames after  *)
(* the first trace was merged; the call returned the error and no trace.    *)
C1_Witness ==
    /\ pc = "idle"
    /\ result.kind = "Err"
    /\ result.err = "mismatch"
    /\ Len(h.walked) = 2
    /\ traces[1].os_thread_id.some
    /\ result.native > result.python
    /\ result.traces = <<>>

(* C2: when the parity check passes, the merged list follows the raw stack: *)
(* the k-th marker address contributes the k-th managed frame unchanged,    *)
(* every other frame-producing address contributes one frame that is not a  *)
(* managed frame, and each frame sits at the rank of its address.           *)
C2_MergePreservesOrder ==
    \A i \in 1..Len(traces) :
        Merged(i) =>
            LET s == h.walked[i].stack
                fr == h.orig[i].frames
                out == traces[i].frames
            IN  /\ Len(out) = Cardinality(Emitting(s))
                /\ \A j \in Emitting(s) :
                      IF Kind(s[j]) = "marker"
                      THEN out[Rank(s, j)] = fr[MarkerRank(s, j)]
                      ELSE out[Rank(s, j)] \notin Range(fr)
                /\ MarkerCount(s) = Len(fr)
                /\ traces[i].os_thread_id = Some(h.walked[i].os)

(* C2 witness: raw [marker, _Z3fooi, marker] with 2 managed frames gives    *)
(* [managed-1, foo, managed-2].                                             *)
C2_Witness ==
    /\ Merged(1)
    /\ h.walked[1].stack = <<A_EvalPy, A_Mangled, A_EvalLib>>
    /\ Len(h.orig[1].frames) = 2
    /\ traces[1].frames[1] = h.orig[1].frames[1]
    /\ traces[1].frames[2].name = "foo"
    /\ traces[1].frames[3] = h.orig[1].frames[2]

(* C3 as stated: once reload has been invoked at the start of a call, the   *)
(* reload flag is false right after it (the call is about to take the lock, *)
(* or has returned from the reload).                                        *)
C3_FlagFalseAfterReload ==
    (h.reload # "no" /\ (pc = "lock" \/ (pc = "idle" /\ h.exit = "entry"))) => ~should_reload

(* C3 amended: a NoBinaryForAddress report leaves the flag set until a      *)
(* reload succeeds; the next call invokes reload before it takes the lock   *)
(* or unwinds a thread, and never with the lock held; after a successful    *)
(* reload the flag is false until the next report; a failed reload returns  *)
(* its error from the call with the flag still set.                         *)
C3_ReloadBeforeSnapshot ==
    /\ h.pending => should_reload
    /\ (h.owed /\ pc # "entry") => h.reload # "no"
    /\ (h.owed /\ pc \notin {"entry", "idle"}) => h.reload = "ok"
    /\ (h.owed /\ lock_held) => h.reload = "ok"
    /\ h.reload # "no" => ~h.reload_locked
    /\ (h.reload = "ok" /\ ~h.pending) => ~should_reload
    /\ h.reload = "failed" =>
          /\ pc = "idle"
          /\ h.exit = "entry"
          /\ result = ErrResult("reload", 0, 0)
          /\ should_reload
          /\ native_stacks = EmptyMap

(* C3 witness: the previous capture reported NoBinaryForAddress; this call  *)
(* has reloaded, cleared the flag and is about to take the lock.            *)
C3_Witness ==
    /\ h.owed
    /\ pc = "lock"
    /\ h.reload = "ok"
    /\ ~should_reload
    /\ ~lock_held

(* C4: a trace without a correlated OS thread is always bound to the        *)
(* fallback thread and its merge never fails on the missing pairing, also   *)
(* when no OS thread has candidate 0.                                       *)
C4_UnpairedAlwaysBound ==
    /\ result.kind # "Panic"
    /\ \A i \in 1..Len(traces) :
          (pc = "merge" /\ i = trace_idx /\ traces[i].thread_id \notin DOMAIN threadid_map)
             => 0 \in DOMAIN threadid_map

(* C5: the lock is held from before the traces are collected until the last *)
(* OS thread has been unwound, is not held while traces are merged          *)
(* (symbolicate, classification, demangling, translate), and is released on *)
(* every return, the early error exits of the snapshot phase included.      *)
C5_LockCoversSnapshotOnly ==
    /\ pc \in {"collect", "threads", "unwind", "unlock"} => lock_held
    /\ pc \in {"idle", "entry", "lock", "merge"} => ~lock_held
    /\ lock_held => Len(h.walked) = 0
    /\ pc = "merge" => DOMAIN native_stacks = Range(thread_list)

(* C5 witness: a call left the snapshot phase on an unwind error with one   *)
(* thread already stored, and the lock is free.                             *)
C5_Witness ==
    /\ pc = "idle"
    /\ h.exit = "unwind"
    /\ result.kind = "Err"
    /\ DOMAIN native_stacks # {}
    /\ ~lock_held

(* an address whose resolved (function, module) pair is in the ignorable table *)
Ignorable(addr) ==
    LET r == Symbolicate(addr)
    IN  r.ok /\ r.function.some /\ InIgnorableTable(r.function.val, r.module)

StripIgnorable(s) == SelectSeq(s, LAMBDA a : ~Ignorable(a))

(* the walk of trace i ended in the mismatch error *)
Mismatched(i) ==
    /\ pc = "idle"
    /\ result.kind = "Err"
    /\ result.err = "mismatch"
    /\ i = Len(h.walked)

(* C6: ignorable addresses contribute no frame and no marker: the outcome   *)
(* of a walk (merged frames, or the counts of the mismatch error) is that   *)
(* of the same raw stack with the ignorable addresses removed, and no       *)
(* merged frame carries a (function, module) pair of the table.             *)
C6_IgnorableFramesDropped ==
    \A i \in 1..Len(h.walked) :
        LET s == h.walked[i].stack
            fr == h.orig[i].frames
            plain == MergeStack(StripIgnorable(s), fr)
        IN  /\ Merged(i) =>
                 /\ traces[i].frames = TranslateAll(plain.merged)
                 /\ plain.python_frame_index = Len(fr)
                 /\ \A k \in 1..Len(traces[i].frames) :
                       LET f == traces[i].frames[k]
                       IN  f.module.some => ~InIgnorableTable(f.name, f.module.val)
                 /\ Len(traces[i].frames) <= Len(StripIgnorable(s))
            /\ Mismatched(i) =>
                 /\ result.native = plain.python_frame_index
                 /\ result.native = MarkerCount(StripIgnorable(s))
                 /\ result.native # Len(fr)

(* C6 witness: a raw stack holding __libc_start_main of libc next to a      *)
(* marker was merged into the one managed frame.                            *)
C6_Witness ==
    /\ Merged(1)
    /\ h.walked[1].stack = <<A_EvalPy, A_LibcStart, A_StartThread>>
    /\ traces[1].frames = h.orig[1].frames
    /\ Len(traces[1].frames) = 1

(* the stub the specification describes for an address *)
IsStubFor(f, addr) ==
    /\ f.filename = "?"
    /\ f.line = 0
    /\ f.module = None
    /\ f.short_filename = None
    /\ Len(f.name) = 18
    /\ SubSeq(f.name, 1, 2) = "0x"
    /\ \A k \in 3..18 : IsHexDigit(SubSeq(f.name, k, k))
    /\ ParseHex(SubSeq(f.name, 3, 18)) = addr

(* C7: every address whose symbolication fails puts exactly one stub frame  *)
(* at its position of the merged list: filename "?", name "0x" and the 16   *)
(* hex digits of the address, line 0, no module; stubs appear nowhere else; *)
(* the failure does not change the marker count and so cannot fail the      *)
(* capture: the walk fails exactly when the markers and frames differ.      *)
C7_StubForUnresolved ==
    \A i \in 1..Len(h.walked) :
        LET s == h.walked[i].stack
            fr == h.orig[i].frames
        IN  /\ Merged(i) =>
                 /\ \A j \in 1..Len(s) :
                       Kind(s[j]) = "stub" => IsStubFor(traces[i].frames[Rank(s, j)], s[j])
                 /\ Cardinality({k \in 1..Len(traces[i].frames) :
                                    traces[i].frames[k].filename = "?"})
                      = Cardinality({j \in 1..Len(s) : Kind(s[j]) = "stub"})
            /\ (Merged(i) \/ Mismatched(i))
            /\ Mismatched(i) <=> MarkerCount(s) # Len(fr)
            /\ Mismatched(i) => result.native = MarkerCount(s)

(* C7 witness: a raw stack with an unresolvable address between two markers *)
(* was merged; the stub 0x000000000000abcd sits between the managed frames. *)
C7_Witness ==
    /\ Merged(1)
    /\ pc = "idle"
    /\ result.kind = "Ok"
    /\ h.walked[1].stack = <<A_EvalPy, A_Unresolved, A_EvalLib>>
    /\ result.traces[1].frames[2].name = "0x000000000000abcd"
    /\ result.traces[1].frames[2].filename = "?"

PrimaryErrors == {"cursor", "NoBinaryForAddress", "unwind"}
SecondaryErrors == {"libunwind_cursor", "libunwind"}

(* C8: after a primary failure with a secondary backend configured the      *)
(* thread is unwound from scratch by the secondary backend and what that    *)
(* cursor yielded (addresses and candidate) is what is stored; without a    *)
(* secondary backend the call returns the primary's error and no later      *)
(* thread is unwound.                                                       *)
C8_FallbackOrPropagate ==
    /\ backend \in {"fallback", "secondary"} => (libunwinder /\ h.prim_err \in PrimaryErrors)
    /\ backend = "fallback" => (stack = <<>> /\ bx = 0)
    /\ (pc = "unwind" /\ backend \in {"primary", "secondary"}) =>
          (stack = h.yielded /\ bx = h.cand)
    /\ \A t \in DOMAIN native_stacks :
          /\ native_stacks[t] = h.from[t].yielded
          /\ h.from[t].by \in {"primary", "secondary"}
          /\ h.from[t].by = "secondary" => libunwinder
          /\ h.from[t].cand \in DOMAIN threadid_map
          /\ threadid_map[h.from[t].cand] <= t
    /\ (pc = "idle" /\ h.exit = "unwind") =>
          /\ h.prim_err \in PrimaryErrors
          /\ result.kind = "Err"
          /\ libunwinder => result.err \in SecondaryErrors
          /\ ~libunwinder => result = ErrResult(h.prim_err, 0, 0)
          /\ DOMAIN native_stacks = {thread_list[k] : k \in 1..(t_idx - 1)}
          /\ t_idx <= Len(thread_list)
    /\ (h.prim_err # "" /\ ~libunwinder) => pc = "idle"

(* C8 witness: the primary unwinder failed for the second thread, the       *)
(* secondary one walked it and its two addresses are the stored stack.      *)
C8_Witness ==
    /\ libunwinder
    /\ pc = "unlock"
    /\ Len(thread_list) = 2
    /\ h.from[2].by = "secondary"
    /\ Len(native_stacks[2]) = 2
    /\ h.from[2].cand # 0
    /\ threadid_map[h.from[2].cand] = 2

(* C9 as stated: a call is aborted only by an unrecoverable thread-unwind   *)
(* error or by a frame-count mismatch.                                      *)
C9_OnlyUnwindOrMismatchAbort ==
    (pc = "idle" /\ result.kind # "None") =>
        \/ result.kind = "Ok"
        \/ (result.kind = "Err"
            /\ result.err \in PrimaryErrors \cup SecondaryErrors \cup {"mismatch"})

(* C9 amended: a call is aborted by a failure of the reload, of taking the  *)
(* lock, of collecting the traces, of listing the threads, by an            *)
(* unrecoverable unwind error, by a frame-count mismatch, or by the panic   *)
(* of a trace with neither a correlated thread nor a thread of candidate 0; *)
(* nothing else aborts it: unresolved addresses and names that do not       *)
(* demangle are merged as substitutes and the call returns every trace.     *)
C9_AbortCauses ==
    (pc = "idle" /\ result.kind # "None") =>
        /\ result.kind \in {"Ok", "Err", "Panic"}
        /\ result.kind = "Err" =>
              \/ (h.exit = "entry" /\ result.err = "reload")
              \/ (h.exit = "lock" /\ result.err = "lock")
              \/ (h.exit = "collect" /\ result.err = "get_stack_traces")
              \/ (h.exit = "threads" /\ result.err = "threads")
              \/ (h.exit = "unwind" /\ result.err \in PrimaryErrors \cup SecondaryErrors)
              \/ (h.exit = "merge" /\ result.err = "mismatch"
                  /\ MarkerCount(h.walked[Len(h.walked)].stack)
                        # Len(h.orig[Len(h.walked)].frames))
        /\ result.kind = "Panic" =>
              /\ h.exit = "merge"
              /\ traces[trace_idx].thread_id \notin DOMAIN threadid_map
              /\ 0 \notin DOMAIN threadid_map
        /\ result.kind = "Ok" =>
              /\ h.exit = "merge"
              /\ Len(result.traces) = Len(h.orig)
              /\ \A i \in 1..Len(h.orig) :
                    /\ result.traces[i].thread_id = h.orig[i].thread_id
                    /\ result.traces[i].os_thread_id.some
        /\ (h.exit = "merge" /\ Len(h.walked) = Len(h.orig)
            /\ \A i \in 1..Len(h.orig) :
                  MarkerCount(h.walked[i].stack) = Len(h.orig[i].frames))
              => result.kind = "Ok"

(* C9 witness: a call whose only OS thread has an unresolvable address on   *)
(* its raw stack returned Ok with the stub in the merged trace.             *)
C9_Witness ==
    /\ pc = "idle"
    /\ result.kind = "Ok"
    /\ Len(result.traces) = 1
    /\ A_Unresolved \in Range(h.walked[1].stack)
    /\ \E k \in 1..Len(result.traces[1].frames) : result.traces[1].frames[k].filename = "?"

(* C10 as stated: every resolved address that is neither a marker, nor in   *)
(* the ignorable table, nor flagged by the source-map predicate puts one    *)
(* frame into the merged list, those of the interpreter's own module too.   *)
C10_DefaultIsNative ==
    \A i \in 1..Len(traces) :
        Merged(i) =>
            Len(traces[i].frames) =
                Cardinality({j \in 1..Len(h.walked[i].stack) :
                    Kind(h.walked[i].stack[j]) \in {"stub", "marker", "native", "interp_other"}})

(* C10 amended: an address is a marker exactly when its module is the       *)
(* interpreter's and its function an evaluation entry point; a resolved     *)
(* address of another module that is neither ignorable nor flagged puts     *)
(* exactly one native frame into the merged list; a resolved address of the *)
(* interpreter's module that is not an entry point puts nothing there.      *)
C10_ClassificationOutsideInterpreter ==
    \A i \in 1..Len(h.walked) :
        LET s == h.walked[i].stack
            fr == h.orig[i].frames
        IN  /\ Mismatched(i) => (result.native = MarkerCount(s) /\ result.python = Len(fr))
            /\ Merged(i) =>
                 /\ MarkerCount(s) = Len(fr)
                 /\ Len(traces[i].frames) = Cardinality(Emitting(s))
                 /\ \A j \in 1..Len(s) :
                       LET r == Symbolicate(s[j])
                           f == traces[i].frames[Rank(s, j)]
                       IN  /\ Kind(s[j]) = "marker" => f = fr[MarkerRank(s, j)]
                           /\ Kind(s[j]) = "native" =>
                                 /\ f.module = Some(r.module)
                                 /\ f.name = IF r.function.some
                                             THEN cython_demangle(DemangledName(r.function.val))
                                             ELSE FormatAddr(s[j])

(* C10 witness: PyObject_Call of the python binary, between a marker and a  *)
(* native frame, left nothing in the merged list.                           *)
C10_Witness ==
    /\ Merged(1)
    /\ h.walked[1].stack = <<A_EvalPy, A_PyOther, A_CloneExt>>
    /\ Len(traces[1].frames) = 2
    /\ traces[1].frames[2].name = "__clone"

====
